---- MODULE Spec2Model ----
(***************************************************************************)
(* Mock-interview tool: the session flow of app.py, the orchestration      *)
(* facade of crewai.py (Crew.kickoff) and the question generator and       *)
(* answer evaluator of crew_agents.py.                                     *)
(*                                                                         *)
(* Python values are modelled as records with uniform fields:              *)
(*   - a string is [pre, core, n, post]: pre leading whitespace chars, a   *)
(*     core of n non-blank-delimited chars, post trailing whitespace;      *)
(*   - a dict is a record with a field `has` holding its key set;          *)
(*   - a model response is a token sequence rendered from a label that     *)
(*     says how the text was built (its shape and the array it carries).   *)
(***************************************************************************)
EXTENDS Integers, Sequences, FiniteSets, TLC

VARIABLES
    session,    \* flask session of the one client (app.py)
    resp,       \* the response to the last request
    crew,       \* app.py:18-22  TRUE iff interview_crew was imported
    call,       \* direct call of a component: operation, inputs, model runs
    out         \* what the direct call returned

vars == <<session, resp, crew, call, out>>

-----------------------------------------------------------------------------
(* Bounds *)

\* longest JSON array a model response carries
MaxArr == 6

\* longest answer list handed to the evaluator in a direct call
MaxAnswers == 2

(* Program constants *)

\* crew_agents.py:47  len(arr) >= 4
MinQuestions == 4
\* heuristic thresholds on the average answer length
High == 400
Mid == 250
LowTask == 120
LowApp == 150
LowFacade == 150

-----------------------------------------------------------------------------
(* Python strings *)

Str(core, n) == [pre |-> 0, core |-> core, n |-> n, post |-> 0]
Padded(core, n) == [pre |-> 1, core |-> core, n |-> n, post |-> 1]
Blank == [pre |-> 2, core |-> "", n |-> 0, post |-> 0]
Empty == Str("", 0)

\* len(s)
PyLen(s) == s.pre + s.n + s.post

\* bool(s)
Truthy(s) == PyLen(s) > 0

\* s.strip()
Strip(s) == [s EXCEPT !.pre = 0, !.post = 0]

\* the text of a question or of a strengths/weaknesses line: an f-string
\* template and the values interpolated into it (j numbers a model's question)
Text(tmpl, j, company, role) ==
    [tmpl |-> tmpl, j |-> j, company |-> company, role |-> role]

NoText == Text("", 0, Empty, Empty)

-----------------------------------------------------------------------------
(* Model responses as token sequences *)

Tok(t) == [t |-> t, j |-> 0, key |-> ""]
QTok(j) == [t |-> "q", j |-> j, key |-> ""]
KV(key) == [t |-> "kv", j |-> 0, key |-> key]
Word == Tok("w")

\* the element at place j of an array a response carries; `bad` replaces the
\* second element by a bare string or by an object without a question key
ElemTok(j, bad) == IF j = 2 /\ bad # "none" THEN Tok(bad) ELSE QTok(j)

ArrayToks(n, bad, sep) ==
    <<Tok("[")>>
    \o (IF n = 0 THEN <<>>
        ELSE IF sep
        THEN [i \in 1..(2 * n - 1) |->
                 IF i % 2 = 1 THEN ElemTok((i + 1) \div 2, bad) ELSE Tok(",")]
        ELSE [i \in 1..n |-> ElemTok(i, bad)])
    \o <<Tok("]")>>

\* resp.text of the question prompt, by the label of the response
RenderArray(r) ==
    CASE r.shape = "clean"      -> ArrayToks(r.n, r.bad, TRUE)
      [] r.shape = "wrapped"    -> <<Word, Word>> \o ArrayToks(r.n, r.bad, TRUE) \o <<Word>>
      [] r.shape = "no_bracket" -> <<Word, Word, Word>>
      [] r.shape = "unclosed"   -> <<Word, Tok("["), QTok(1)>>
      [] r.shape = "reversed"   -> <<Tok("]"), Word, Tok("[")>>
      [] r.shape = "stray"      -> <<Tok("["), Word, Tok("]"), Word>> \o ArrayToks(r.n, r.bad, TRUE)
      [] r.shape = "no_comma"   -> ArrayToks(r.n, r.bad, FALSE)

ObjectMembers(obj) ==
    CASE obj = "empty"  -> <<>>
      [] obj = "other"  -> <<KV("note")>>
      [] obj = "report" -> <<KV("overall_score"), Tok(","), KV("strengths"), Tok(","),
                             KV("weaknesses"), Tok(","), KV("topic_scores")>>

ObjectToks(obj) == <<Tok("{")>> \o ObjectMembers(obj) \o <<Tok("}")>>

\* resp.text of the evaluation prompt.  A member's own braces (topic_scores)
\* lie inside the outermost pair and are part of its kv token.
RenderObject(r) ==
    CASE r.shape = "clean"    -> ObjectToks(r.obj)
      [] r.shape = "wrapped"  -> <<Word>> \o ObjectToks(r.obj) \o <<Word, Word>>
      [] r.shape = "no_brace" -> <<Word, Word>>
      [] r.shape = "unclosed" -> <<Word, Tok("{"), KV("overall_score")>>
      [] r.shape = "stray"    -> ObjectToks(r.obj) \o <<Word, Tok("}")>>

\* str.find / str.rfind: 0-based index, -1 when absent
Find(s, t) ==
    IF \E i \in 1..Len(s) : s[i].t = t
    THEN (CHOOSE i \in 1..Len(s) : s[i].t = t /\ \A k \in 1..(i - 1) : s[k].t # t) - 1
    ELSE -1

RFind(s, t) ==
    IF \E i \in 1..Len(s) : s[i].t = t
    THEN (CHOOSE i \in 1..Len(s) : s[i].t = t /\ \A k \in (i + 1)..Len(s) : s[k].t # t) - 1
    ELSE -1

\* text[start:end] for start >= 0, end >= 0
Slice(s, start, end) == SubSeq(s, start + 1, IF end > Len(s) THEN Len(s) ELSE end)

\* the Python value of an array element
ElemValue(tok) ==
    [isdict |-> tok.t \in {"q", "nokey"},
     hasq |-> tok.t = "q",
     question |-> IF tok.t = "q" THEN Text("model", tok.j, Empty, Empty) ELSE NoText]

\* the tokens that are array elements, and those that are object members
ElemKinds == {"q", "str", "nokey"}
MemberKinds == {"kv"}

\* members of a JSON array or object: empty, or items separated by commas
WellSeparated(mid, kinds) ==
    \/ Len(mid) = 0
    \/ /\ Len(mid) % 2 = 1
       /\ \A i \in 1..Len(mid) :
              IF i % 2 = 1 THEN mid[i].t \in kinds ELSE mid[i].t = ","

Items(mid) == [i \in 1..((Len(mid) + 1) \div 2) |-> mid[2 * i - 1]]

\* json.loads of a substring: ok = FALSE stands for the exception it raises
JsonLoads(s) ==
    LET mid == SubSeq(s, 2, Len(s) - 1) IN
    IF Len(s) >= 2 /\ s[1].t = "[" /\ s[Len(s)].t = "]" /\ WellSeparated(mid, ElemKinds)
    THEN [ok |-> TRUE, islist |-> TRUE,
          list |-> [i \in 1..Len(Items(mid)) |-> ElemValue(Items(mid)[i])],
          keys |-> {}]
    ELSE IF Len(s) >= 2 /\ s[1].t = "{" /\ s[Len(s)].t = "}" /\ WellSeparated(mid, MemberKinds)
    THEN [ok |-> TRUE, islist |-> FALSE, list |-> <<>>,
          keys |-> {Items(mid)[i].key : i \in 1..Len(Items(mid))}]
    ELSE [ok |-> FALSE, islist |-> FALSE, list |-> <<>>, keys |-> {}]

-----------------------------------------------------------------------------
(* Python dicts handed between the components *)

FieldNames == {"overall_score", "strengths", "weaknesses", "topic_scores"}

NoScores ==
    [technical_knowledge |-> 0, problem_solving |-> 0, communication |-> 0,
     code_quality |-> 0, system_design |-> 0]

\* the object a model response parsed to, as a report: only the keys matter to
\* the code; a full report carries the scores the model chose
ParsedReport(keys) ==
    IF FieldNames \subseteq keys
    THEN [fields |-> keys, overall_score |-> 9,
          strengths |-> <<Text("model", 1, Empty, Empty)>>,
          weaknesses |-> <<Text("model", 2, Empty, Empty)>>,
          topic_scores |-> [technical_knowledge |-> 8, problem_solving |-> 7,
                            communication |-> 9, code_quality |-> 8,
                            system_design |-> 6]]
    ELSE [fields |-> keys, overall_score |-> 0, strengths |-> <<>>,
          weaknesses |-> <<>>, topic_scores |-> NoScores]

NoReport == ParsedReport({})

\* a dict viewed as a report (its keys as the report's fields)
AsReport(has, top) == [top EXCEPT !.fields = has]

\* a value returned by a task or by the facade: a dict (its keys in `has`; the
\* values of "questions", "report" and "result"; `top` holds the values of
\* report fields the dict itself carries), or a list (`items`), or another value
Value(type, has, questions, report, inner, items, top) ==
    [type |-> type, has |-> has, questions |-> questions, report |-> report,
     inner |-> inner, items |-> items, top |-> top]

NoInner == [isdict |-> FALSE, has |-> {}, report |-> NoReport, top |-> NoReport]

Dict(has, questions, report) ==
    Value("dict", has, questions, report, NoInner, <<>>, NoReport)

EmptyDict == Dict({}, <<>>, NoReport)

\* what a call of a task gave: an exception, or a Task holding `result`.
\* invoked and path record the identifiers tried and the branch taken.
Raised == [raised |-> TRUE, istask |-> FALSE, result |-> EmptyDict,
           invoked |-> 0, path |-> "raised"]

Task(result, invoked, path) ==
    [raised |-> FALSE, istask |-> TRUE, result |-> result,
     invoked |-> invoked, path |-> path]

\* a Question object {"question": text}
Question(text) == [isdict |-> TRUE, hasq |-> TRUE, question |-> text]

-----------------------------------------------------------------------------
(* crew_agents.py: the question generator *)

ModelNames == <<"gemini-2.0-flash", "gemini-2.0-flash-lite", "gemini-pro-latest">>

Rejected == [accepted |-> FALSE, arr |-> <<>>, report |-> NoReport]

AcceptsAnyLength(arr) == TRUE

\* crew_agents.py:47
LongEnough(arr) == Len(arr) >= MinQuestions

\* one pass of the loop body, crew_agents.py:39-50
TryQuestionModel(r) ==
    IF r.kind = "error" THEN Rejected
    ELSE LET text == RenderArray(r)
             start == Find(text, "[")
             end == RFind(text, "]") + 1
         IN  IF start # -1 /\ end # -1
             THEN LET arr == JsonLoads(Slice(text, start, end)) IN
                  IF ~arr.ok THEN Rejected
                  ELSE IF arr.islist /\ LongEnough(arr.list)
                  THEN [accepted |-> TRUE, arr |-> arr.list, report |-> NoReport]
                  ELSE Rejected
             ELSE Rejected

RECURSIVE QuestionLoopLast(_, _)
QuestionLoopLast(runs, k) ==
    IF k > Len(ModelNames) THEN [accepted |-> FALSE, arr |-> <<>>, invoked |-> k - 1]
    ELSE LET t == TryQuestionModel(runs[k])
             rest == QuestionLoopLast(runs, k + 1)
         IN  IF rest.accepted \/ ~t.accepted THEN rest
             ELSE [accepted |-> TRUE, arr |-> t.arr, invoked |-> Len(ModelNames)]

\* the loop over model_names from identifier k on: the first accepted response
RECURSIVE QuestionLoop(_, _)
QuestionLoop(runs, k) ==
    IF k > Len(ModelNames) THEN [accepted |-> FALSE, arr |-> <<>>, invoked |-> k - 1]
    ELSE LET t == TryQuestionModel(runs[k]) IN
         IF t.accepted THEN [accepted |-> TRUE, arr |-> t.arr, invoked |-> k]
         ELSE QuestionLoop(runs, k + 1)

\* crew_agents.py:52-57
TaskFallbackQuestions(company, role) ==
    << Question(Text("concepts", 0, company, role)),
       Question(Text("web_app", 0, company, Empty)),
       Question(Text("db_suit", 0, company, Empty)),
       Question(Text("perf_issue", 0, company, Empty)) >>

generate_questions_task(inputs, runs) ==
    IF ~({"company", "role"} \subseteq inputs.has) THEN Raised
    ELSE LET l == QuestionLoop(runs, 1) IN
         IF l.accepted
         THEN Task(Dict({"questions"}, l.arr, NoReport), l.invoked, "model")
         ELSE Task(Dict({"questions"},
                        TaskFallbackQuestions(inputs.company, inputs.role), NoReport),
                   l.invoked, "task_fallback")

-----------------------------------------------------------------------------
(* The heuristic report, three times in the source *)

RECURSIVE TotalChars(_)
\* sum(len(a.get("answer", "")) for a in answers)
TotalChars(answers) ==
    IF Len(answers) = 0 THEN 0
    ELSE (IF "answer" \in Head(answers).has THEN PyLen(Head(answers).answer) ELSE 0)
         + TotalChars(Tail(answers))

\* avg > t for avg = total / (len(answers) or 1): the quotient of two small
\* integers exceeds the integer t exactly when total > t * n
AvgAbove(answers, t) ==
    TotalChars(answers) > t * (IF Len(answers) = 0 THEN 1 ELSE Len(answers))

BaseScoreAtLeast(answers, low) ==
    LET total == TotalChars(answers)
        n == IF Len(answers) = 0 THEN 1 ELSE Len(answers)
    IN  IF total >= High * n THEN 8
        ELSE IF total >= Mid * n THEN 7
        ELSE IF total >= low * n THEN 6
        ELSE 5

BaseScore(answers, low) ==
    IF AvgAbove(answers, High) THEN 8
    ELSE IF AvgAbove(answers, Mid) THEN 7
    ELSE IF AvgAbove(answers, low) THEN 6
    ELSE 5

Max(a, b) == IF a > b THEN a ELSE b

TopicScoresFlat(base) ==
    [technical_knowledge |-> base, problem_solving |-> base,
     communication |-> base, code_quality |-> base, system_design |-> base]

TopicScores(base) ==
    [technical_knowledge |-> base, problem_solving |-> base + 1,
     communication |-> Max(base - 1, 1), code_quality |-> base,
     system_design |-> base]

HeuristicReport(base, strengths, weaknesses) ==
    [fields |-> FieldNames, overall_score |-> base, strengths |-> strengths,
     weaknesses |-> weaknesses, topic_scores |-> TopicScores(base)]

\* crew_agents.py:113-136
TaskHeuristic(answers, company) ==
    HeuristicReport(BaseScore(answers, LowTask),
        <<Text("clear_explanations", 0, Empty, Empty),
          Text("good_problem_solving", 0, Empty, Empty)>>,
        <<Text("could_include_examples", 0, company, Empty)>>)

\* crewai.py:79-94
FacadeHeuristic(answers, company) ==
    HeuristicReport(BaseScore(answers, LowFacade),
        <<Text("clear_problem_solving", 0, Empty, Empty),
          Text("good_foundation", 0, Empty, Empty)>>,
        <<Text("add_examples", 0, company, Empty)>>)

\* app.py:73-97
fallback_evaluate(answers, company, role) ==
    HeuristicReport(BaseScore(answers, LowApp),
        <<Text("clear_problem_solving", 0, Empty, Empty),
          Text("good_foundation", 0, Empty, Empty)>>,
        <<Text("add_examples", 0, company, Empty),
          Text("code_level_details", 0, Empty, Empty)>>)

-----------------------------------------------------------------------------
(* crew_agents.py: the answer evaluator *)

\* one pass of the loop body, crew_agents.py:101-111
TryReportModel(r) ==
    IF r.kind = "error" THEN Rejected
    ELSE LET text == RenderObject(r)
             start == Find(text, "{")
             end == RFind(text, "}") + 1
         IN  IF start # -1 /\ end # -1
             THEN LET report == JsonLoads(Slice(text, start, end)) IN
                  IF ~report.ok THEN Rejected
                  ELSE [accepted |-> TRUE, arr |-> <<>>,
                        report |-> ParsedReport(report.keys)]
             ELSE Rejected

RECURSIVE ReportLoop(_, _)
ReportLoop(runs, k) ==
    IF k > Len(ModelNames)
    THEN [accepted |-> FALSE, report |-> NoReport, invoked |-> k - 1]
    ELSE LET t == TryReportModel(runs[k]) IN
         IF t.accepted THEN [accepted |-> TRUE, report |-> t.report, invoked |-> k]
         ELSE ReportLoop(runs, k + 1)

\* a['question'] and a['answer'] of every record, crew_agents.py:80
AnswersRenderable(answers) ==
    \A i \in 1..Len(answers) : {"question", "answer"} \subseteq answers[i].has

evaluate_answers_task(inputs, runs) ==
    LET answers == IF "answers" \in inputs.has THEN inputs.answers ELSE <<>> IN
    IF ~({"company", "role"} \subseteq inputs.has) \/ ~AnswersRenderable(answers)
    THEN Raised
    ELSE LET l == ReportLoop(runs, 1) IN
         IF l.accepted
         THEN Task(Dict({"report"}, <<>>, l.report), l.invoked, "model")
         ELSE Task(Dict({"report"}, <<>>, TaskHeuristic(answers, inputs.company)),
                   l.invoked, "task_fallback")

-----------------------------------------------------------------------------
(* crewai.py: the orchestration facade *)

\* what a call returned: an exception, or a value
CallRaised == [raised |-> TRUE, value |-> EmptyDict, invoked |-> 0, path |-> "raised"]

Returned(value, invoked, path) ==
    [raised |-> FALSE, value |-> value, invoked |-> invoked, path |-> path]

\* crewai.py:58-65
FacadeFallbackQuestions(inputs) ==
    LET company == IF "company" \in inputs.has THEN inputs.company ELSE Str("Company", 7)
        role == IF "role" \in inputs.has THEN inputs.role ELSE Str("Role", 4)
    IN  << Question(Text("concepts_a", 0, company, role)),
           Question(Text("web_app", 0, company, Empty)),
           Question(Text("db_suit", 0, company, Empty)),
           Question(Text("perf_issue", 0, company, Empty)) >>

\* crewai.py:79-94
FacadeFallbackReport(inputs) ==
    FacadeHeuristic(IF "answers" \in inputs.has THEN inputs.answers ELSE <<>>,
                    IF "company" \in inputs.has THEN inputs.company ELSE Str("company", 7))

Unguarded(o, fallback) ==
    IF o.raised THEN CallRaised ELSE Returned(o.result, o.invoked, o.path)

\* try: out = fn(inputs); a Task gives out.result, a dict is returned as it
\* is; except: the facade's own fallback   (crewai.py:49-57, 70-78)
Guarded(o, fallback) ==
    IF o.raised THEN Returned(fallback, 0, "facade_fallback")
    ELSE Returned(o.result, o.invoked, o.path)

\* crewai.py:45-96
Dispatch(inputs, gruns, eruns) ==
    LET action == IF "action" \in inputs.has THEN inputs.action ELSE "" IN
    IF action = "generate_questions"
    THEN Guarded(generate_questions_task(inputs, gruns),
                 Dict({"questions"}, FacadeFallbackQuestions(inputs), NoReport))
    ELSE IF action = "evaluate_answers"
    THEN Guarded(evaluate_answers_task(inputs, eruns),
                 Dict({"report"}, <<>>, FacadeFallbackReport(inputs)))
    ELSE Returned(EmptyDict, 0, "unknown_action")

\* Crew.kickoff; importOk: importlib.import_module("crew_agents") succeeds
kickoff(importOk, inputs, gruns, eruns) ==
    IF ~importOk THEN Returned(EmptyDict, 0, "import_failed")
    ELSE Dispatch(inputs, gruns, eruns)

-----------------------------------------------------------------------------
(* app.py: the caller of the facade *)

\* call_crew; avail: interview_crew is not None.  interview_crew() is a Crew,
\* which has kickoff; crew_agents is then already imported.
call_crew(avail, inputs, gruns, eruns) ==
    IF ~avail THEN CallRaised ELSE kickoff(TRUE, inputs, gruns, eruns)

\* app.py:64-70
fallback_generate_questions(company, role) ==
    << Question(Text("concepts_a", 0, company, role)),
       Question(Text("web_application", 0, company, Empty)),
       Question(Text("db_pick", 0, company, Empty)),
       Question(Text("algo_opt", 0, company, Empty)) >>

\* begin, app.py:116-128: the questions stored for what call_crew gave
BeginQuestions(r, company, role) ==
    IF r.raised THEN fallback_generate_questions(company, role)
    ELSE LET v == r.value IN
         IF v.type = "dict" /\ "questions" \in v.has /\ Len(v.questions) > 0
         THEN v.questions
         ELSE IF v.type = "list" THEN v.items
         ELSE fallback_generate_questions(company, role)

\* report, app.py:199-215: the report rendered for what call_crew gave
ReportData(r, answers, company, role) ==
    LET v == r.value
        found ==
            IF r.raised \/ v.type # "dict" THEN NoReport
            ELSE IF "report" \in v.has THEN v.report
            ELSE IF "result" \in v.has /\ v.inner.isdict
            THEN IF "report" \in v.inner.has /\ v.inner.report.fields # {}
                 THEN v.inner.report
                 ELSE AsReport(v.inner.has, v.inner.top)
            ELSE IF {"overall_score", "strengths"} \subseteq v.has
            THEN AsReport(v.has, v.top)
            ELSE NoReport
    IN  IF found.fields = {}
        THEN [data |-> fallback_evaluate(answers, company, role), path |-> "caller_fallback"]
        ELSE [data |-> found, path |-> r.path]

-----------------------------------------------------------------------------
(* The inputs the model draws *)

Response(kind, shape, n, bad, obj) ==
    [kind |-> kind, shape |-> shape, n |-> n, bad |-> bad, obj |-> obj]

ApiError == Response("error", "", 0, "none", "")

\* what generate_content may give for the question prompt
GenResponses ==
    {ApiError}
    \cup {Response("text", sh, 0, "none", "") : sh \in {"no_bracket", "unclosed", "reversed"}}
    \cup {Response("text", sh, MinQuestions, "none", "") : sh \in {"stray", "no_comma", "wrapped"}}
    \cup {Response("text", "clean", n, "none", "") : n \in {0} \cup ((MinQuestions - 1)..MaxArr)}
    \cup {Response("text", "clean", MinQuestions, bad, "") : bad \in {"str", "nokey"}}

\* what generate_content may give for the evaluation prompt
EvalResponses ==
    {ApiError, Response("text", "no_brace", 0, "none", "")}
    \cup {Response("text", "clean", 0, "none", obj) : obj \in {"empty", "other"}}
    \cup {Response("text", sh, 0, "none", "report") : sh \in {"wrapped", "stray"}}

ModelIds == 1..Len(ModelNames)

GenRuns == [ModelIds -> GenResponses]
EvalRuns == [ModelIds -> EvalResponses]

NoRuns == [k \in ModelIds |-> ApiError]

\* what the rest of a request sees of a run of the loop
Accepted(l) == [accepted |-> l.accepted, arr |-> l.arr]
AcceptedReport(l) == [accepted |-> l.accepted, report |-> l.report]

\* one run of the three models for every outcome the loop can have
GenRunsReps ==
    {CHOOSE runs \in GenRuns : Accepted(QuestionLoop(runs, 1)) = a :
        a \in {Accepted(QuestionLoop(runs, 1)) : runs \in GenRuns}}

EvalRunsReps ==
    {CHOOSE runs \in EvalRuns : AcceptedReport(ReportLoop(runs, 1)) = a :
        a \in {AcceptedReport(ReportLoop(runs, 1)) : runs \in EvalRuns}}

Acme == Str("Acme", 4)
Engineer == Str("Engineer", 8)

\* form fields as the browser may send them
CompanyFields == {Empty, Blank, Padded("Acme", 4)}
RoleFields == {Empty, Engineer}
AnswerFields == {Empty, Blank, Str("a", 10), Padded("a", 130)}

-----------------------------------------------------------------------------
(* app.py: the routes *)

\* session.clear()
Cleared ==
    [has |-> {}, company |-> Empty, role |-> Empty, questions |-> <<>>,
     current_question |-> 0, answers |-> <<>>]

NoForm == [company |-> Empty, role |-> Empty, answer |-> Empty]

\* a response: a rendered page, a redirect, or the 500 of an unhandled exception;
\* path and calls record the branch that gave the report and the number of
\* calls of call_crew made for the request
NoResp ==
    [req |-> "none", form |-> NoForm, kind |-> "none", to |-> "", page |-> "",
     company |-> Empty, role |-> Empty, question |-> NoText, question_number |-> 0,
     total_questions |-> 0, progress |-> 0, error |-> FALSE, report |-> NoReport,
     path |-> "", calls |-> 0]

Redirect(req, form, to) ==
    [NoResp EXCEPT !.req = req, !.form = form, !.kind = "redirect", !.to = to]

ServerError(req, form) ==
    [NoResp EXCEPT !.req = req, !.form = form, !.kind = "error"]

ProgressRounded(idx, n) ==
    LET q == (idx * 100) \div n
        r == (idx * 100) % n
    IN  IF 2 * r >= n THEN q + 1 ELSE q

\* int((idx / len(questions)) * 100): for fewer than 50 questions the float
\* product truncates to the integer quotient of idx * 100 by the length
Progress(idx, n) == (idx * 100) \div n

\* questions[idx]["question"] evaluates without an exception
HasQuestionAt(questions, idx) ==
    /\ idx < Len(questions)
    /\ questions[idx + 1].isdict
    /\ questions[idx + 1].hasq

\* render_template("interview.html", ...), app.py:154-163 and 178-186
InterviewPage(req, form, s, idx, error) ==
    IF ~HasQuestionAt(s.questions, idx) THEN ServerError(req, form)
    ELSE [NoResp EXCEPT !.req = req, !.form = form, !.kind = "render",
              !.page = "interview.html", !.company = s.company, !.role = s.role,
              !.question = s.questions[idx + 1].question,
              !.question_number = idx + 1,
              !.total_questions = Len(s.questions),
              !.progress = Progress(idx, Len(s.questions)),
              !.error = error]

\* GET /
Index ==
    /\ session' = Cleared
    /\ resp' = [NoResp EXCEPT !.req = "GET /", !.kind = "render", !.page = "index.html"]
    /\ UNCHANGED <<crew, call, out>>

RestartKeepingSession ==
    /\ resp' = Redirect("GET /restart", NoForm, "index")
    /\ UNCHANGED <<session, crew, call, out>>

\* GET /restart
Restart ==
    /\ session' = Cleared
    /\ resp' = Redirect("GET /restart", NoForm, "index")
    /\ UNCHANGED <<crew, call, out>>

\* the inputs begin hands to call_crew, app.py:115
BeginInputs(fcompany, frole) ==
    [has |-> {"action", "company", "role"}, action |-> "generate_questions",
     company |-> Strip(fcompany), role |-> Strip(frole), answers |-> <<>>]

BeginWithUnchecked(fcompany, frole, r) ==
    LET form == [NoForm EXCEPT !.company = fcompany, !.role = frole]
        company == Strip(fcompany)
        role == Strip(frole)
    IN  /\ session' =
               [has |-> {"company", "role", "questions", "current_question", "answers"},
                company |-> company, role |-> role,
                questions |-> BeginQuestions(r, company, role),
                current_question |-> 0, answers |-> <<>>]
        /\ resp' = [Redirect("POST /begin", form, "interview") EXCEPT !.calls = 1]
        /\ UNCHANGED <<crew, call, out>>

\* POST /begin with the form fields company and role; r: what call_crew gives
\* when the handler calls it
BeginWith(fcompany, frole, r) ==
    LET form == [NoForm EXCEPT !.company = fcompany, !.role = frole]
        company == Strip(fcompany)
        role == Strip(frole)
    IN  /\ IF ~Truthy(company) \/ ~Truthy(role)
           THEN /\ resp' = Redirect("POST /begin", form, "index")
                /\ UNCHANGED session
           ELSE /\ session' =
                     [has |-> {"company", "role", "questions", "current_question", "answers"},
                      company |-> company, role |-> role,
                      questions |-> BeginQuestions(r, company, role),
                      current_question |-> 0, answers |-> <<>>]
                /\ resp' = [Redirect("POST /begin", form, "interview") EXCEPT !.calls = 1]
        /\ UNCHANGED <<crew, call, out>>

\* POST /begin served with the facade of crewai.py; runs: what the models
\* answer during the request
Begin(fcompany, frole, runs) ==
    BeginWith(fcompany, frole,
              call_crew(crew, BeginInputs(fcompany, frole), runs, NoRuns))

AppendTwice(s, idx, answer_text) ==
    [s EXCEPT !.answers = @ \o <<[has |-> {"question", "answer"},
                                  question |-> s.questions[idx + 1].question,
                                  answer |-> answer_text],
                                 [has |-> {"question", "answer"},
                                  question |-> s.questions[idx + 1].question,
                                  answer |-> answer_text]>>,
                !.current_question = idx + 1,
                !.has = @ \cup {"current_question"}]

\* app.py:165-167
Advance(s, idx, answer_text) ==
    [s EXCEPT !.answers = Append(@, [has |-> {"question", "answer"},
                                     question |-> s.questions[idx + 1].question,
                                     answer |-> answer_text]),
              !.current_question = idx + 1,
              !.has = @ \cup {"current_question"}]

InterviewGetCounting ==
    /\ "questions" \in session.has
    /\ session.current_question < Len(session.questions)
    /\ session' = [session EXCEPT !.current_question = @ + 1]
    /\ resp' = InterviewPage("GET /interview", NoForm, session,
                             session.current_question, FALSE)
    /\ UNCHANGED <<crew, call, out>>

InterviewGetToStart ==
    LET req == "GET /interview"
        idx == IF "current_question" \in session.has THEN session.current_question ELSE 0
    IN  /\ resp' = IF "questions" \notin session.has \/ Len(session.questions) = 0
                       \/ idx >= Len(session.questions)
                   THEN Redirect(req, NoForm, "index")
                   ELSE InterviewPage(req, NoForm, session, idx, FALSE)
        /\ UNCHANGED <<session, crew, call, out>>

\* GET /interview
InterviewGet ==
    LET req == "GET /interview"
        idx == IF "current_question" \in session.has THEN session.current_question ELSE 0
    IN  /\ resp' = IF "questions" \notin session.has \/ Len(session.questions) = 0
                   THEN Redirect(req, NoForm, "index")
                   ELSE IF idx >= Len(session.questions)
                   THEN Redirect(req, NoForm, "report")
                   ELSE InterviewPage(req, NoForm, session, idx, FALSE)
        /\ UNCHANGED <<session, crew, call, out>>

\* POST /interview with the form field answer
InterviewPost(fanswer) ==
    LET req == "POST /interview"
        form == [NoForm EXCEPT !.answer = fanswer]
        idx == IF "current_question" \in session.has THEN session.current_question ELSE 0
        answer_text == Strip(fanswer)
    IN  /\ IF "questions" \notin session.has \/ Len(session.questions) = 0
           THEN /\ resp' = Redirect(req, form, "index")
                /\ UNCHANGED session
           ELSE IF ~Truthy(answer_text)
           THEN /\ resp' = [InterviewPage(req, form, session, idx, TRUE) EXCEPT !.form = form]
                /\ UNCHANGED session
           ELSE IF "answers" \notin session.has \/ ~HasQuestionAt(session.questions, idx)
           THEN /\ resp' = ServerError(req, form)
                /\ UNCHANGED session
           ELSE /\ session' = Advance(session, idx, answer_text)
                /\ resp' = IF idx + 1 >= Len(session.questions)
                           THEN Redirect(req, form, "report")
                           ELSE Redirect(req, form, "interview")
        /\ UNCHANGED <<crew, call, out>>

NoAnswersKeyOnly(s) == "answers" \notin s.has

\* app.py:191
NoAnswers(s) == "answers" \notin s.has \/ Len(s.answers) = 0

\* the inputs report hands to call_crew, app.py:193-198
ReportInputs(s) ==
    [has |-> {"action", "company", "role", "answers"}, action |-> "evaluate_answers",
     company |-> IF "company" \in s.has THEN s.company ELSE Str("Unknown Company", 15),
     role |-> IF "role" \in s.has THEN s.role ELSE Str("Unknown Role", 12),
     answers |-> s.answers]

ReportWithStoring(r) ==
    LET req == "GET /report"
        inputs == ReportInputs(session)
        data == ReportData(r, inputs.answers, inputs.company, inputs.role)
    IN  /\ resp' = IF NoAnswers(session)
                   THEN Redirect(req, NoForm, "index")
                   ELSE [NoResp EXCEPT !.req = req, !.kind = "render",
                             !.page = "report.html", !.report = data.data,
                             !.company = inputs.company, !.role = inputs.role,
                             !.path = data.path, !.calls = 1]
        /\ session' = IF NoAnswers(session) THEN session
                      ELSE [session EXCEPT !.has = @ \cup {"report"}]
        /\ UNCHANGED <<crew, call, out>>

\* GET /report; r: what call_crew gives when the handler calls it
ReportWith(r) ==
    LET req == "GET /report"
        inputs == ReportInputs(session)
        data == ReportData(r, inputs.answers, inputs.company, inputs.role)
    IN  /\ resp' = IF NoAnswers(session)
                   THEN Redirect(req, NoForm, "index")
                   ELSE [NoResp EXCEPT !.req = req, !.kind = "render",
                             !.page = "report.html", !.report = data.data,
                             !.company = inputs.company, !.role = inputs.role,
                             !.path = data.path, !.calls = 1]
        /\ UNCHANGED <<session, crew, call, out>>

\* GET /report served with the facade of crewai.py; runs: what the models
\* answer during the request
Report(runs) ==
    ReportWith(call_crew(crew, ReportInputs(session), NoRuns, runs))

NoCall == [op |-> "none", importOk |-> TRUE,
           inputs |-> [has |-> {}, action |-> "", company |-> Empty, role |-> Empty,
                       answers |-> <<>>],
           gruns |-> NoRuns, eruns |-> NoRuns]

Init ==
    /\ session = Cleared
    /\ resp = NoResp
    /\ crew \in BOOLEAN
    /\ call = NoCall
    /\ out = CallRaised

Next ==
    \/ Index
    \/ Restart
    \/ \E fcompany \in CompanyFields, frole \in RoleFields, runs \in GenRunsReps :
           Begin(fcompany, frole, runs)
    \/ InterviewGet
    \/ \E fanswer \in AnswerFields : InterviewPost(fanswer)
    \/ \E runs \in EvalRunsReps : Report(runs)

Spec == Init /\ [][Next]_vars

-----------------------------------------------------------------------------
(* The scripted session: begin, answer every question, view the report *)

FlowNext ==
    \/ /\ ~("questions" \in session.has)
       /\ \E runs \in GenRunsReps : Begin(Padded("Acme", 4), Engineer, runs)
    \/ /\ "questions" \in session.has
       /\ session.current_question < Len(session.questions)
       /\ \E fanswer \in {f \in AnswerFields : Truthy(Strip(f))} : InterviewPost(fanswer)
    \/ /\ "questions" \in session.has
       /\ session.current_question >= Len(session.questions)
       /\ \E runs \in EvalRunsReps : Report(runs)

\* the client sends the next request of the script as long as there is one
FlowSpec == Init /\ [][FlowNext]_vars /\ WF_vars(FlowNext)

-----------------------------------------------------------------------------
(* Direct calls of the components *)

\* answer lengths around the thresholds of the heuristic
AnswerLens == {100, 140, 160, 340, 460}

AnswerRecord(n) ==
    [has |-> {"question", "answer"}, question |-> Text("model", 1, Empty, Empty),
     answer |-> Str("a", n)]

RECURSIVE AnswerListsOf(_)
AnswerListsOf(k) ==
    IF k = 0 THEN {<<>>}
    ELSE LET shorter == AnswerListsOf(k - 1) IN
         shorter \cup {Append(l, AnswerRecord(n)) :
                          l \in {x \in shorter : Len(x) = k - 1}, n \in AnswerLens}

AnswerLists ==
    AnswerListsOf(MaxAnswers)
    \cup {<<[AnswerRecord(460) EXCEPT !.has = {"question"}]>>,
          <<[AnswerRecord(460) EXCEPT !.has = {"answer"}]>>}

\* the inputs dict of a call, with the keys `has`
Inputs(has, action, answers) ==
    [has |-> has, action |-> IF "action" \in has THEN action ELSE "",
     company |-> IF "company" \in has THEN Acme ELSE Empty,
     role |-> IF "role" \in has THEN Engineer ELSE Empty,
     answers |-> IF "answers" \in has THEN answers ELSE <<>>]

GenInputs ==
    {Inputs(has, "generate_questions", <<>>) :
        has \in {{"action", "company", "role"}, {"action", "company"}, {"action", "role"}}}

EvalInputs ==
    {Inputs(has, "evaluate_answers", l) :
        has \in {{"action", "company", "role", "answers"}, {"action", "role", "answers"}},
        l \in AnswerLists}
    \cup {Inputs({"action", "company", "role"}, "evaluate_answers", <<>>)}

OtherInputs ==
    {Inputs({"action", "company", "role"}, "summarize", <<>>),
     Inputs({"company", "role"}, "", <<>>)}

FromTask(o) ==
    [raised |-> o.raised, value |-> o.result, invoked |-> o.invoked, path |-> o.path]

Called(op, importOk, inputs, gruns, eruns) ==
    [op |-> op, importOk |-> importOk, inputs |-> inputs, gruns |-> gruns, eruns |-> eruns]

\* generate_questions_task(inputs)
CallGenerateTask(inputs, runs) ==
    /\ call' = Called("generate_questions_task", TRUE, inputs, runs, NoRuns)
    /\ out' = FromTask(generate_questions_task(inputs, runs))
    /\ UNCHANGED <<session, resp, crew>>

\* evaluate_answers_task(inputs)
CallEvaluateTask(inputs, runs) ==
    /\ call' = Called("evaluate_answers_task", TRUE, inputs, NoRuns, runs)
    /\ out' = FromTask(evaluate_answers_task(inputs, runs))
    /\ UNCHANGED <<session, resp, crew>>

\* Crew().kickoff(inputs)
CallKickoff(importOk, inputs, gruns, eruns) ==
    /\ call' = Called("kickoff", importOk, inputs, gruns, eruns)
    /\ out' = kickoff(importOk, inputs, gruns, eruns)
    /\ UNCHANGED <<session, resp, crew>>

\* fallback_evaluate(answers, company, role)
CallFallbackEvaluate(answers) ==
    /\ call' = Called("fallback_evaluate", TRUE,
                      Inputs({"company", "role", "answers"}, "", answers), NoRuns, NoRuns)
    /\ out' = Returned(Dict({"report"}, <<>>, fallback_evaluate(answers, Acme, Engineer)),
                       0, "caller_fallback")
    /\ UNCHANGED <<session, resp, crew>>

CrewInit ==
    /\ session = Cleared
    /\ resp = NoResp
    /\ crew = TRUE
    /\ call = NoCall
    /\ out = CallRaised

\* no call has been made yet: a run makes one call
Idle == call.op = "none"

CrewNext ==
    \/ Idle /\ \E inputs \in GenInputs, runs \in GenRuns : CallGenerateTask(inputs, runs)
    \/ Idle /\ \E inputs \in EvalInputs, runs \in EvalRuns : CallEvaluateTask(inputs, runs)
    \/ Idle /\ \E inputs \in GenInputs, runs \in GenRuns :
                   CallKickoff(TRUE, inputs, runs, NoRuns)
    \/ Idle /\ \E inputs \in EvalInputs, runs \in EvalRuns :
                   CallKickoff(TRUE, inputs, NoRuns, runs)
    \/ Idle /\ \E inputs \in GenInputs \cup EvalInputs \cup OtherInputs :
                   CallKickoff(FALSE, inputs, NoRuns, NoRuns)
    \/ Idle /\ \E inputs \in OtherInputs : CallKickoff(TRUE, inputs, NoRuns, NoRuns)
    \/ Idle /\ \E answers \in AnswerLists : CallFallbackEvaluate(answers)

CrewSpec == CrewInit /\ [][CrewNext]_vars

-----------------------------------------------------------------------------
(* Properties of the session flow *)

QuestionsSet(s) == "questions" \in s.has

\* state ANSWERING(i): questions are set and the index i is below their count
InAnswering(s) ==
    /\ QuestionsSet(s)
    /\ Len(s.questions) > 0
    /\ s.current_question < Len(s.questions)

Completed(s) ==
    /\ QuestionsSet(s)
    /\ Len(s.questions) > 0
    /\ s.current_question = Len(s.questions)

BlankField(f) == PyLen(f) = 0 \/ f.n = 0

\* C1: whenever questions are set, 0 <= current_question <= len(questions),
\* len(answers) = current_question, and the k-th answer record carries the
\* text of question k.
C1_AnswersFollowQuestions ==
    QuestionsSet(session) =>
        /\ 0 <= session.current_question
        /\ session.current_question <= Len(session.questions)
        /\ Len(session.answers) = session.current_question
        /\ \A k \in 1..Len(session.answers) :
               /\ session.questions[k].hasq
               /\ session.answers[k].question = session.questions[k].question

C1_Witness ==
    /\ Completed(session)
    /\ Len(session.answers) >= MinQuestions
    /\ resp.req = "POST /interview"

\* C2: GET /report renders a report only when current_question equals
\* len(questions); with some but not all questions answered it renders none.
C2_ReportGatedByCompletion ==
    (resp.req = "GET /report" /\ resp.kind = "render" /\ resp.page = "report.html")
        => session.current_question = Len(session.questions)

\* C3: the scripted session (POST /begin with company and role, then a
\* non-empty answer for every question in order, then GET /report) eventually
\* is complete and has its report rendered, whatever the models answered.
C3_FlowReachesReport ==
    <>(Completed(session) /\ resp.req = "GET /report" /\ resp.kind = "render"
          /\ resp.page = "report.html")

\* C5 (the case it names): POST /interview, with an empty or a non-empty
\* answer, in a session whose current_question already equals len(questions)
\* is answered by a redirect or a page, never by a server error.
C5_PostWhenCompleteIsHandled ==
    (resp.req = "POST /interview" /\ Completed(session))
        => resp.kind \in {"render", "redirect"}

\* C6: POST /interview with an empty or whitespace-only answer in state
\* ANSWERING(i) leaves the session unchanged and re-renders question i with
\* a validation message.
C6_EmptyAnswerRerenders ==
    [][ (resp'.req = "POST /interview" /\ BlankField(resp'.form.answer)
            /\ InAnswering(session))
        => /\ session' = session
           /\ resp'.kind = "render"
           /\ resp'.page = "interview.html"
           /\ resp'.error
           /\ resp'.question_number = session.current_question + 1 ]_vars

\* C7: GET /report in a session with no answer record (the key missing or the
\* list empty) redirects to start and renders no report.
C7_ReportNeedsAnAnswer ==
    (resp.req = "GET /report" /\ ("answers" \notin session.has \/ Len(session.answers) = 0))
        => /\ resp.kind = "redirect"
           /\ resp.to = "index"
           /\ resp.report = NoReport

C7_Witness ==
    /\ resp.req = "GET /report"
    /\ InAnswering(session)
    /\ session.current_question = 0
    /\ "answers" \in session.has
    /\ resp.kind = "redirect"

\* C9: a GET /interview that directly follows a GET /interview gives the same
\* response (question text, question number, progress) and leaves the session
\* as it was.
C9_InterviewGetIdempotent ==
    [][ (resp.req = "GET /interview" /\ resp'.req = "GET /interview")
        => (resp' = resp /\ session' = session) ]_vars

C9_Witness ==
    /\ resp.req = "GET /interview"
    /\ resp.kind = "render"
    /\ InAnswering(session)
    /\ resp.question_number = session.current_question + 1
    /\ resp.question_number >= 2
    /\ resp.progress > 0

-----------------------------------------------------------------------------
(* Properties of the components *)

\* a response that carries, in clean JSON, an array of at least 4 elements
GoodArray(r) ==
    /\ r.kind = "text"
    /\ r.shape \in {"clean", "wrapped"}
    /\ r.n >= 4

\* the array such a response carries
CarriedArray(r) ==
    [j \in 1..r.n |->
        IF j = 2 /\ r.bad = "str" THEN [isdict |-> FALSE, hasq |-> FALSE, question |-> NoText]
        ELSE IF j = 2 /\ r.bad = "nokey"
        THEN [isdict |-> TRUE, hasq |-> FALSE, question |-> NoText]
        ELSE Question(Text("model", j, Empty, Empty))]

GeneratorCalled ==
    /\ call.op = "generate_questions_task"
    /\ {"company", "role"} \subseteq call.inputs.has

\* C4: the question generator returns at least 4 questions; it returns a
\* model's array only if that response parses to an array of length >= 4 (the
\* first such response in the order of the identifiers), and the fixed
\* 4-question fallback when every identifier fails.
C4_AtLeastFourQuestions ==
    GeneratorCalled =>
        /\ ~out.raised
        /\ out.value.has = {"questions"}
        /\ Len(out.value.questions) >= 4
        /\ IF \E k \in ModelIds : GoodArray(call.gruns[k])
           THEN LET first == CHOOSE k \in ModelIds :
                                 /\ GoodArray(call.gruns[k])
                                 /\ \A i \in 1..(k - 1) : ~GoodArray(call.gruns[i])
                IN  out.value.questions = CarriedArray(call.gruns[first])
           ELSE /\ Len(out.value.questions) = 4
                /\ \A i \in 1..4 :
                       /\ out.value.questions[i].hasq
                       /\ out.value.questions[i].question.tmpl # "model"
                       /\ out.value.questions[i].question.company = call.inputs.company

C4_Witness ==
    /\ GeneratorCalled
    /\ out.path = "task_fallback"
    /\ call.gruns[1].kind = "error"
    /\ call.gruns[2].shape = "clean" /\ call.gruns[2].n = 3
    /\ call.gruns[3].shape = "stray"

HeuristicPaths == {"task_fallback", "facade_fallback", "caller_fallback"}

HeuristicReported ==
    /\ call.op \in {"evaluate_answers_task", "kickoff", "fallback_evaluate"}
    /\ ~out.raised
    /\ "report" \in out.value.has
    /\ out.path \in HeuristicPaths

\* C8: a report produced by a heuristic fallback (the evaluator's, the
\* facade's or the caller's) has problem_solving = technical_knowledge + 1,
\* communication = max(technical_knowledge - 1, 1), and overall_score,
\* technical_knowledge, code_quality and system_design all equal.
C8_HeuristicTopicScores ==
    HeuristicReported =>
        LET r == out.value.report
            t == r.topic_scores
        IN  /\ t.problem_solving = t.technical_knowledge + 1
            /\ t.communication =
                   (IF t.technical_knowledge - 1 > 1 THEN t.technical_knowledge - 1 ELSE 1)
            /\ r.overall_score = t.technical_knowledge
            /\ t.code_quality = t.technical_knowledge
            /\ t.system_design = t.technical_knowledge
            /\ r.overall_score \in 5..8

C8_Witness ==
    /\ HeuristicReported
    /\ out.path = "facade_fallback"
    /\ Len(call.inputs.answers) = MaxAnswers
    /\ out.value.report.overall_score = 8
    /\ out.value.report.topic_scores.problem_solving = 9
    /\ out.value.report.topic_scores.communication = 7

KickoffAction == IF "action" \in call.inputs.has THEN call.inputs.action ELSE ""

-----------------------------------------------------------------------------
(* Properties of the responses *)

InterviewRendered ==
    /\ resp.req \in {"GET /interview", "POST /interview"}
    /\ resp.kind = "render"
    /\ resp.page = "interview.html"

\* round(a / b) for a >= 0, b > 0: the nearest integer, a tie going to the
\* even neighbour
RoundDiv(a, b) ==
    LET q == a \div b
        r == a % b
    IN  IF 2 * r > b THEN q + 1
        ELSE IF 2 * r < b THEN q
        ELSE IF q % 2 = 0 THEN q ELSE q + 1

\* C11 as stated: the progress percentage /interview shows for index i of n
\* questions equals round(100 * i / n), for every question count the
\* generator can produce.
C11_ProgressIsRounded ==
    InterviewRendered =>
        resp.progress = RoundDiv(100 * (resp.question_number - 1), resp.total_questions)

\* C11 amended: the progress percentage shown for index i of n questions is
\* 100 * i / n truncated to an integer: the greatest p with p * n <= 100 * i.
C11_ProgressIsTruncated ==
    InterviewRendered =>
        LET i == resp.question_number - 1
            n == resp.total_questions
        IN  /\ 0 <= i /\ i < n
            /\ resp.progress * n <= 100 * i
            /\ 100 * i < (resp.progress + 1) * n

C11_Witness ==
    /\ InterviewRendered
    /\ resp.total_questions = 6
    /\ resp.question_number = 2
    /\ resp.progress = 16

\* C12 as stated: GET /interview with current_question >= len(questions)
\* redirects to start.
C12_OutOfBoundsRedirectsToStart ==
    (resp.req = "GET /interview" /\ QuestionsSet(session)
        /\ session.current_question >= Len(session.questions))
        => (resp.kind = "redirect" /\ resp.to = "index")

\* C12 amended: GET /interview with questions set, non-empty, and
\* current_question >= len(questions) redirects to the report view; it
\* redirects to start only when the questions are missing or empty.
C12_OutOfBoundsRedirectsToReport ==
    resp.req = "GET /interview" =>
        /\ (QuestionsSet(session) /\ Len(session.questions) > 0
               /\ session.current_question >= Len(session.questions))
           => (resp.kind = "redirect" /\ resp.to = "report")
        /\ (~QuestionsSet(session) \/ Len(session.questions) = 0)
           => (resp.kind = "redirect" /\ resp.to = "index")
        /\ (resp.kind = "redirect" /\ resp.to = "index")
           => (~QuestionsSet(session) \/ Len(session.questions) = 0)

C12_Witness ==
    /\ resp.req = "GET /interview"
    /\ Completed(session)
    /\ Len(session.answers) = Len(session.questions)
    /\ resp.kind = "redirect"

-----------------------------------------------------------------------------
(* Properties of the model loops *)

EvaluatorCalled ==
    /\ call.op = "evaluate_answers_task"
    /\ ~out.raised

\* the identifiers whose response the loop body accepts
AcceptedQuestionIds == {k \in ModelIds : TryQuestionModel(call.gruns[k]).accepted}
AcceptedReportIds == {k \in ModelIds : TryReportModel(call.eruns[k]).accepted}

FirstOf(ids) == CHOOSE k \in ids : \A j \in ids : k <= j

\* C13: in the generator and in the evaluator the identifiers are invoked in
\* list order, identifier k+1 only after identifier k was rejected and none
\* after the first accepted response; the value returned is that of the first
\* accepted identifier, and the fallback is returned only after all
\* identifiers were invoked.
C13_ModelsTriedInOrder ==
    /\ GeneratorCalled =>
           /\ out.invoked \in ModelIds
           /\ \A k \in 1..(out.invoked - 1) : k \notin AcceptedQuestionIds
           /\ IF AcceptedQuestionIds = {}
              THEN /\ out.invoked = Len(ModelNames)
                   /\ out.path = "task_fallback"
                   /\ out.value.questions =
                          TaskFallbackQuestions(call.inputs.company, call.inputs.role)
              ELSE /\ out.invoked = FirstOf(AcceptedQuestionIds)
                   /\ out.path = "model"
                   /\ out.value.questions = TryQuestionModel(call.gruns[out.invoked]).arr
    /\ EvaluatorCalled =>
           /\ out.invoked \in ModelIds
           /\ \A k \in 1..(out.invoked - 1) : k \notin AcceptedReportIds
           /\ IF AcceptedReportIds = {}
              THEN /\ out.invoked = Len(ModelNames)
                   /\ out.path = "task_fallback"
                   /\ out.value.report =
                          TaskHeuristic(call.inputs.answers, call.inputs.company)
              ELSE /\ out.invoked = FirstOf(AcceptedReportIds)
                   /\ out.path = "model"
                   /\ out.value.report = TryReportModel(call.eruns[out.invoked]).report

C13_Witness ==
    /\ GeneratorCalled
    /\ AcceptedQuestionIds = {2, 3}
    /\ call.gruns[2].n # call.gruns[3].n
    /\ out.invoked = 2
    /\ Len(out.value.questions) = call.gruns[2].n

-----------------------------------------------------------------------------
(* The routes with any facade: app.py tolerates several result shapes *)

\* a list of n Question objects
StubQuestions(n) == [j \in 1..n |-> Question(Text("model", j, Empty, Empty))]

\* a bare list, and a value that is neither a dict nor a list (None)
ListValue(items) == Value("list", {}, <<>>, NoReport, NoInner, items, NoReport)
OtherValue == Value("other", {}, <<>>, NoReport, NoInner, <<>>, NoReport)

\* {"result": inner}
ResultDict(inner) == Value("dict", {"result"}, <<>>, NoReport, inner, <<>>, NoReport)
InnerDict(has, report, top) == [isdict |-> TRUE, has |-> has, report |-> report, top |-> top]

FullReport == ParsedReport(FieldNames)

\* what call_crew may give to begin: an exception, {questions: [...]}, a bare
\* list, and shapes begin does not recognise
FacadeQuestionResults ==
    {CallRaised}
    \cup {Returned(Dict({"questions"}, StubQuestions(n), NoReport), 0, "facade") :
             n \in {0, 1, MinQuestions}}
    \cup {Returned(ListValue(StubQuestions(n)), 0, "facade") : n \in {0, 1, MinQuestions}}
    \cup {Returned(v, 0, "facade") :
             v \in {EmptyDict, OtherValue,
                    ResultDict(InnerDict({"questions"}, NoReport, NoReport))}}

\* what call_crew may give to report: an exception, {report: R},
\* {result: ...}, a report at top level, and shapes report does not recognise
FacadeReportResults ==
    {CallRaised}
    \cup {Returned(Dict({"report"}, <<>>, R), 0, "facade") :
             R \in {NoReport, FullReport, ParsedReport({"summary"})}}
    \cup {Returned(ResultDict(inner), 0, "facade") :
             inner \in {NoInner, InnerDict({}, NoReport, NoReport),
                        InnerDict({"report"}, NoReport, NoReport),
                        InnerDict({"report"}, FullReport, NoReport),
                        InnerDict(FieldNames, NoReport, FullReport)}}
    \cup {Returned(Value("dict", FieldNames, <<>>, NoReport, NoInner, <<>>, FullReport),
                   0, "facade")}
    \cup {Returned(v, 0, "facade") : v \in {EmptyDict, ListValue(<<>>), OtherValue}}

CallerNext ==
    \/ Index
    \/ Restart
    \/ \E fcompany \in CompanyFields, frole \in RoleFields, r \in FacadeQuestionResults :
           BeginWith(fcompany, frole, r)
    \/ InterviewGet
    \/ \E fanswer \in AnswerFields : InterviewPost(fanswer)
    \/ \E r \in FacadeReportResults : ReportWith(r)

CallerSpec == Init /\ [][CallerNext]_vars

BeganInterview ==
    /\ resp.req = "POST /begin"
    /\ resp.kind = "redirect"
    /\ resp.to = "interview"

\* C14: POST /begin with non-empty company and role always ends in
\* ANSWERING(0): the session questions are a non-empty list, current_question
\* is 0 and answers is empty, whether the facade returns {questions: [...]},
\* a bare list, an unrecognized shape, or raises.
C14_BeginAlwaysAnswering ==
    (resp.req = "POST /begin" /\ Truthy(Strip(resp.form.company))
        /\ Truthy(Strip(resp.form.role)))
        => /\ BeganInterview
           /\ QuestionsSet(session)
           /\ Len(session.questions) > 0
           /\ session.current_question = 0
           /\ session.answers = <<>>

\* the Report C15 names for a facade result r: the R of {report: R} or of
\* {result: {report: R}}
NamedReport(r) ==
    IF r.raised \/ r.value.type # "dict" THEN NoReport
    ELSE IF "report" \in r.value.has THEN r.value.report
    ELSE IF "result" \in r.value.has /\ r.value.inner.isdict
            /\ "report" \in r.value.inner.has
    THEN r.value.inner.report
    ELSE NoReport

\* r is one of the two shapes that carry a report
CarriesReport(r) ==
    /\ ~r.raised
    /\ r.value.type = "dict"
    /\ \/ "report" \in r.value.has
       \/ /\ "result" \in r.value.has
          /\ r.value.inner.isdict
          /\ "report" \in r.value.inner.has

\* r is an exception, a value that is not a dict, or an empty dict
NothingUsable(r) == r.raised \/ r.value.type # "dict" \/ r.value = EmptyDict

\* what C15 says GET /report renders for the facade result r
C15_Renders(r, rendered) ==
    /\ rendered.kind = "render"
    /\ rendered.page = "report.html"
    /\ rendered.report.fields # {}
    /\ (CarriesReport(r) /\ NamedReport(r).fields # {}) => rendered.report = NamedReport(r)
    /\ (NothingUsable(r) \/ (CarriesReport(r) /\ NamedReport(r).fields = {}))
           => rendered.report =
                  fallback_evaluate(session.answers, rendered.company, rendered.role)

\* C15: GET /report with at least one answer record always renders a
\* non-empty report: the R of {report: R} or {result: {report: R}} when R is
\* not empty, and the caller's heuristic report when the facade raises, gives
\* an unrecognized shape, or gives an empty report object.
C15_ReportAlwaysRendered ==
    [][ \A r \in FacadeReportResults :
            (ReportWith(r) /\ ~NoAnswers(session)) => C15_Renders(r, resp') ]_vars

-----------------------------------------------------------------------------
(* Properties of the generated questions and of the heuristic score *)

\* C16: every element of the sequence the question generator returns, on the
\* model path and on the fallback path, is a Question: an object with a
\* question field.
C16_EveryElementIsQuestion ==
    GeneratorCalled =>
        \A i \in 1..Len(out.value.questions) :
            /\ out.value.questions[i].isdict
            /\ out.value.questions[i].hasq

RECURSIVE SumOfLengths(_)
SumOfLengths(answers) ==
    IF answers = <<>> THEN 0
    ELSE PyLen(Head(answers).answer) + SumOfLengths(Tail(answers))

\* the base score C17 names for answers whose average length is compared with
\* 400, 250 and low; the empty list gives 5
ClaimedBase(answers, low) ==
    LET total == SumOfLengths(answers)
        n == Len(answers)
    IN  IF n = 0 THEN 5
        ELSE IF total > 400 * n THEN 8
        ELSE IF total > 250 * n THEN 7
        ELSE IF total > low * n THEN 6
        ELSE 5

\* the average length of the answers lies in (120, 150]
BetweenLows(answers) ==
    /\ Len(answers) > 0
    /\ SumOfLengths(answers) > 120 * Len(answers)
    /\ SumOfLengths(answers) <= 150 * Len(answers)

\* C17: the heuristic base score is 8 for an average answer length > 400,
\* 7 for > 250, 6 for > 120 in the evaluator and > 150 in the facade's and the
\* caller's fallback, else 5 (5 for no answers); the three fallbacks agree on
\* overall_score unless the average lies in (120, 150]; and the report the
\* caller shows when the facade ran the evaluator and every model failed is
\* the one with the 120 threshold.
C17_HeuristicBaseScore ==
    (HeuristicReported /\ AnswersRenderable(call.inputs.answers)) =>
        LET answers == call.inputs.answers
            score == out.value.report.overall_score
        IN  /\ out.path = "task_fallback" => score = ClaimedBase(answers, 120)
            /\ out.path \in {"facade_fallback", "caller_fallback"}
                   => score = ClaimedBase(answers, 150)
            /\ ~BetweenLows(answers) =>
                   /\ TaskHeuristic(answers, Acme).overall_score = score
                   /\ FacadeHeuristic(answers, Acme).overall_score = score
                   /\ fallback_evaluate(answers, Acme, Engineer).overall_score = score
            /\ (call.op = "kickoff" /\ out.path = "task_fallback") =>
                   LET shown == ReportData(out, answers, Acme, Engineer) IN
                   /\ shown.path = "task_fallback"
                   /\ shown.data.overall_score = ClaimedBase(answers, 120)

C17_Witness ==
    /\ HeuristicReported
    /\ call.op = "kickoff"
    /\ out.path = "task_fallback"
    /\ BetweenLows(call.inputs.answers)
    /\ Len(call.inputs.answers) = MaxAnswers
    /\ out.value.report.overall_score = 6
    /\ fallback_evaluate(call.inputs.answers, Acme, Engineer).overall_score = 5

-----------------------------------------------------------------------------
(* Properties of the session as a whole *)

ResetRequests == {"GET /", "GET /restart"}

\* C18: from any session state GET / and GET /restart leave the session with
\* none of its five keys, and a GET /interview or GET /report that follows is
\* redirected to start.
C18_ResetClearsSession ==
    [][ /\ resp'.req \in ResetRequests =>
               /\ session'.has = {}
               /\ session' = Cleared
        /\ (resp.req \in ResetRequests /\ resp'.req \in {"GET /interview", "GET /report"})
               => /\ resp'.kind = "redirect"
                  /\ resp'.to = "index"
                  /\ session'.has = {} ]_vars

C18_Witness ==
    /\ resp.req \in {"GET /interview", "GET /report"}
    /\ resp.kind = "redirect"
    /\ resp.to = "index"
    /\ session.has = {}
    /\ session = Cleared

\* C19: GET /interview and GET /report leave the whole session unchanged, the
\* report is not stored in it, and POST /interview changes at most answers
\* and current_question: company, role and questions stay as they were.
C19_ViewsReadOnly ==
    [][ /\ resp'.req \in {"GET /interview", "GET /report"} =>
               /\ session' = session
               /\ "report" \notin session'.has
        /\ resp'.req = "POST /interview" =>
               /\ session'.company = session.company
               /\ session'.role = session.role
               /\ session'.questions = session.questions
               /\ session'.has \ {"current_question", "answers"}
                      = session.has \ {"current_question", "answers"} ]_vars

C19_Witness ==
    /\ resp.req = "GET /report"
    /\ resp.kind = "render"
    /\ resp.report.fields # {}
    /\ Completed(session)
    /\ session.has = {"company", "role", "questions", "current_question", "answers"}

\* POST /begin was sent with an empty or whitespace-only company or role
BlankBegin(r) ==
    /\ r.req = "POST /begin"
    /\ BlankField(r.form.company) \/ BlankField(r.form.role)

\* C20 as stated: POST /begin with an empty or whitespace-only company or
\* role makes no generator call and does not populate the session, and the
\* session after the request and after the redirect it returns is the one
\* before the request.
C20_BlankBeginNoTransition ==
    [][ /\ BlankBegin(resp') =>
               /\ resp'.calls = 0
               /\ session' = session
        /\ (BlankBegin(resp) /\ resp'.req = "GET /") => session' = session ]_vars

\* C20 amended: such a request makes no generator call, leaves the session as
\* it was and redirects to start; following that redirect (GET /) clears the
\* session, which is then the one before the request only if that was empty.
C20_BlankBeginThenCleared ==
    [][ /\ BlankBegin(resp') =>
               /\ resp'.calls = 0
               /\ session' = session
               /\ resp'.kind = "redirect"
               /\ resp'.to = "index"
        /\ (BlankBegin(resp) /\ resp'.req = "GET /") =>
               /\ session' = Cleared
               /\ (session' = session) <=> (session.has = {}) ]_vars

C20_Witness ==
    /\ BlankBegin(resp)
    /\ PyLen(resp.form.company) > 0
    /\ ~BlankField(resp.form.role)
    /\ resp.kind = "redirect"
    /\ resp.to = "index"
    /\ resp.calls = 0
    /\ InAnswering(session)
    /\ Len(session.answers) > 0

====
